---- MODULE Spec2Model ----
(***************************************************************************)
(* The request handlers of the blog application (app/blog/views.py):       *)
(* post_list, post_detail, post_share, post_comment and post_search, over  *)
(* a data store of posts, tags and comments and an outbound mail gateway.  *)
(***************************************************************************)
EXTENDS Integers, Sequences, FiniteSets, TLC

VARIABLES
    posts,      \* the Post table: a sequence of post records in repository order
    tags,       \* the Tag table: the set of tag slugs that exist
    comments,   \* the Comment table: a sequence of comment records, in creation order
    outbox,     \* the messages handed to the mail gateway, in order
    now,        \* the current time
    req,        \* the request being served (the last one)
    resp,       \* the response to it
    procs       \* the post_comment requests in flight (step-wise execution)

vars == <<posts, tags, comments, outbox, now, req, resp, procs>>

(***************************************************************************)
(* Bounds of the model.                                                    *)
(***************************************************************************)
ListPosts == 7
DetailPosts == 3
SimilarPosts == 6
SharePosts == 2
CommentPosts == 2
SearchPosts == 3
AllPosts == 2
ConcPosts == 2
MaxMail == 2
MaxComments == 2
MaxProcs == 2

(***************************************************************************)
(* Program constants.                                                      *)
(***************************************************************************)
PER_PAGE == 3
SIMILAR_LIMIT == 4
MIN_SIMILARITY_NUM == 1
MIN_SIMILARITY_DEN == 10
FROM_EMAIL == "danylov.lv@gmail.com"
MAX_QUERY_LENGTH == 6

(***************************************************************************)
(* Values.                                                                 *)
(***************************************************************************)
None == "None"

\* A timestamp <<year, month, day, time of day>> and its order.
TsKey(ts) == ((ts[1] * 12 + ts[2]) * 31 + ts[3]) * 100 + ts[4]

Range(s) == {s[i] : i \in 1..Len(s)}

Min(a, b) == IF a <= b THEN a ELSE b

RECURSIVE NonDecreasing(_, _, _)
\* The sequences of length n over lo..k that never decrease.
NonDecreasing(k, n, lo) ==
    IF n = 0 THEN {<<>>}
    ELSE UNION {{<<i>> \o s : s \in NonDecreasing(k, n - 1, i)} : i \in lo..k}

\* The stores of at most n posts drawn from `choices`; a post's id is its
\* position in repository order.
Stores(choices, n) ==
    {[j \in 1..Len(s) |-> [choices[s[j]] EXCEPT !.id = j]] :
        s \in UNION {NonDecreasing(Len(choices), m, 1) : m \in 0..n}}

MkPost(status, publish, slug, tgs, title, body) ==
    [id |-> 0, status |-> status, publish |-> publish, slug |-> slug,
     tags |-> tgs, title |-> title, body |-> body]

TagSlugs == {"t1", "t2"}

DJANGO == <<"d", "j", "a", "n", "g", "o">>
FLASK == <<"f", "l", "a", "s", "k">>
DJANO == <<"d", "j", "a", "n", "o">>
RUBY == <<"r", "u", "b", "y">>

NOW == <<2024, 3, 15, 0>>

(***************************************************************************)
(* Post.published: the manager of published posts.                         *)
(***************************************************************************)
IsPublished(p) == p.status = "PUBLISHED" /\ TsKey(p.publish) <= TsKey(now)

Published == SelectSeq(posts, IsPublished)

PostById(id) == CHOOSE p \in Range(posts) : p.id = id

(***************************************************************************)
(* post_list                                                               *)
(***************************************************************************)
Digits == <<"0", "1", "2", "3", "4", "5", "6", "7", "8", "9">>

IsDigit(c) == c \in Range(Digits)

DigitVal(c) == (CHOOSE i \in 1..10 : Digits[i] = c) - 1

Unsigned(s) == IF Len(s) >= 1 /\ s[1] \in {"-", "+"} THEN Tail(s) ELSE s

\* Whether int(s) of a string s succeeds: an optional sign and digits.
IsIntLiteral(s) ==
    /\ Len(Unsigned(s)) >= 1
    /\ \A i \in 1..Len(Unsigned(s)) : IsDigit(Unsigned(s)[i])

RECURSIVE DigitsValue(_)
DigitsValue(s) ==
    IF s = <<>> THEN 0
    ELSE DigitsValue(SubSeq(s, 1, Len(s) - 1)) * 10 + DigitVal(s[Len(s)])

\* int(s)
IntValue(s) ==
    IF Len(s) >= 1 /\ s[1] = "-" THEN 0 - DigitsValue(Unsigned(s))
    ELSE DigitsValue(Unsigned(s))

\* Paginator.num_pages (allow_empty_first_page, no orphans)
NumPages(object_list) ==
    IF Len(object_list) = 0 THEN 1
    ELSE (Len(object_list) + PER_PAGE - 1) \div PER_PAGE

\* Paginator.validate_number: the number, or the exception raised.
\* page_number is request.GET.get('page', 1).
ValidateNumber(object_list, page) ==
    IF ~page.present THEN [ok |-> TRUE, number |-> 1, error |-> None]
    ELSE IF ~IsIntLiteral(page.text)
        THEN [ok |-> FALSE, number |-> 0, error |-> "PageNotAnInteger"]
    ELSE IF IntValue(page.text) < 1
        THEN [ok |-> FALSE, number |-> 0, error |-> "EmptyPage"]
    ELSE IF IntValue(page.text) > NumPages(object_list)
        THEN [ok |-> FALSE, number |-> 0, error |-> "EmptyPage"]
    ELSE [ok |-> TRUE, number |-> IntValue(page.text), error |-> None]

\* Paginator.page(number).object_list of a valid number
PageOf(object_list, number) ==
    SubSeq(object_list, (number - 1) * PER_PAGE + 1,
           Min(number * PER_PAGE, Len(object_list)))

\* A faulty variant: an out-of-range page falls back to the first page.
ResolvedNumber_FirstOnEmpty(object_list, page) ==
    LET v == ValidateNumber(object_list, page) IN
    IF v.ok THEN v.number ELSE 1

\* The page post_list resolves: try / except PageNotAnInteger / except EmptyPage
ResolvedNumber(object_list, page) ==
    LET v == ValidateNumber(object_list, page) IN
    IF v.ok THEN v.number
    ELSE IF v.error = "PageNotAnInteger" THEN 1
    ELSE NumPages(object_list)

HasTag(tag_slug) == LET Test(p) == tag_slug \in p.tags IN SelectSeq(Published, Test)

Ids(s) == [i \in 1..Len(s) |-> s[i].id]

PostListResponse(tag_slug, page) ==
    IF tag_slug # "" /\ tag_slug \notin tags THEN [status |-> "Http404"]
    ELSE LET post_list == IF tag_slug # "" THEN HasTag(tag_slug) ELSE Published
             number == ResolvedNumber(post_list, page)
         IN [status |-> "ok",
             posts |-> Ids(PageOf(post_list, number)),
             number |-> number,
             num_pages |-> NumPages(post_list),
             tag |-> IF tag_slug # "" THEN tag_slug ELSE None]

PostList(tag_slug, page) ==
    /\ req' = [view |-> "post_list", tag_slug |-> tag_slug, page |-> page]
    /\ resp' = PostListResponse(tag_slug, page)
    /\ UNCHANGED <<posts, tags, comments, outbox, now, procs>>

PageTexts ==
    {<<>>, <<"a">>, <<"1", ".", "5">>, <<"-", "1">>, <<"0">>, <<"1">>, <<"2">>,
     <<"3">>, <<"4">>, <<"1", "2">>, <<"+", "2">>}

Pages == {[present |-> FALSE, text |-> <<>>]}
            \cup {[present |-> TRUE, text |-> t] : t \in PageTexts}

TagInputs == {"", "t1", "zz"}

NoRequest == [view |-> None]
NoResponse == [status |-> None]

\* The worker serves one request at a time.
Idle == req = NoRequest

\* return render(...): the response is delivered, the worker takes the next request.
Respond ==
    /\ req # NoRequest
    /\ req' = NoRequest
    /\ resp' = NoResponse
    /\ UNCHANGED <<posts, tags, comments, outbox, now, procs>>

ListChoices ==
    <<MkPost("PUBLISHED", <<2024, 4, 1, 0>>, "hello", {"t1"}, DJANGO, DJANGO),
      MkPost("PUBLISHED", <<2024, 3, 2, 0>>, "hello", {"t1"}, DJANGO, DJANGO),
      MkPost("PUBLISHED", <<2024, 3, 1, 0>>, "hello", {}, DJANGO, DJANGO),
      MkPost("DRAFT", <<2024, 3, 1, 0>>, "hello", {"t1"}, DJANGO, DJANGO)>>

InitWith(choices, n) ==
    /\ posts \in Stores(choices, n)
    /\ tags = TagSlugs
    /\ comments = <<>>
    /\ outbox = <<>>
    /\ now = NOW
    /\ req = NoRequest
    /\ resp = NoResponse
    /\ procs = <<>>

InitList == InitWith(ListChoices, ListPosts)

NextList ==
    \/ Idle /\ \E t \in TagInputs, pg \in Pages : PostList(t, pg)
    \/ Respond

SpecList == InitList /\ [][NextList]_vars

(***************************************************************************)
(* post_detail                                                             *)
(***************************************************************************)
\* The rows of Post with status PUBLISHED and the four fields given.
DetailMatches(year, month, day, post_slug) ==
    {p \in Range(posts) :
        /\ p.status = "PUBLISHED"
        /\ p.publish[1] = year
        /\ p.publish[2] = month
        /\ p.publish[3] = day
        /\ p.slug = post_slug}

\* get_object_or_404: the object, Http404 on DoesNotExist; the
\* MultipleObjectsReturned of get() is not caught.
GetObjectOr404(matches) ==
    IF matches = {} THEN [status |-> "Http404"]
    ELSE IF Cardinality(matches) > 1 THEN [status |-> "MultipleObjectsReturned"]
    ELSE [status |-> "ok", post |-> CHOOSE p \in matches : TRUE]

\* post.comments.filter(active=True)
ActiveComments(post) ==
    LET Test(c) == c.post = post.id /\ c.active IN SelectSeq(comments, Test)

\* A faulty variant: same_tags counts all the tags of the row's post.
SameTags_AllTags(p, post) == Cardinality(p.tags)

\* The annotation same_tags of a row of the tags__in join: Count('tags').
SameTags(p, post) == Cardinality(p.tags \cap post.tags)

\* Post.published.filter(tags__in=post_tags_ids).exclude(id=post.id)
SimilarCandidates(post) ==
    {p \in Range(Published) : p.tags \cap post.tags # {} /\ p.id # post.id}

\* order_by('-same_tags', '-publish'): p is not after q.
NotAfter(p, q, post) ==
    \/ SameTags(p, post) > SameTags(q, post)
    \/ /\ SameTags(p, post) = SameTags(q, post)
       /\ TsKey(p.publish) >= TsKey(q.publish)

RECURSIVE Orderings(_, _)
\* The orders the query may return the rows S in: rows equal in both keys
\* come in any order.
Orderings(S, post) ==
    IF S = {} THEN {<<>>}
    ELSE UNION {{<<p>> \o r : r \in Orderings(S \ {p}, post)} :
                    p \in {x \in S : \A y \in S : NotAfter(x, y, post)}}

\* [:4]
SimilarPostsOf(post) ==
    {SubSeq(r, 1, Min(SIMILAR_LIMIT, Len(r))) :
        r \in Orderings(SimilarCandidates(post), post)}

PostDetail(year, month, day, post_slug) ==
    LET found == GetObjectOr404(DetailMatches(year, month, day, post_slug)) IN
    /\ req' = [view |-> "post_detail", year |-> year, month |-> month,
               day |-> day, slug |-> post_slug]
    /\ IF found.status # "ok" THEN resp' = found
       ELSE \E similar \in SimilarPostsOf(found.post) :
                resp' = [status |-> "ok",
                         post |-> found.post.id,
                         comments |-> ActiveComments(found.post),
                         similar_posts |-> Ids(similar)]
    /\ UNCHANGED <<posts, tags, comments, outbox, now, procs>>

Years == {2023, 2024}
Months == {3, 4}
Days == {1, 2}
Slugs == {"hello", "world"}

DetailChoices ==
    <<MkPost("PUBLISHED", <<2024, 4, 1, 0>>, "hello", {"t1"}, DJANGO, DJANGO),
      MkPost("PUBLISHED", <<2024, 3, 2, 0>>, "hello", {"t1", "t2"}, DJANGO, DJANGO),
      MkPost("PUBLISHED", <<2024, 3, 1, 1>>, "hello", {"t1"}, DJANGO, DJANGO),
      MkPost("PUBLISHED", <<2024, 3, 1, 0>>, "world", {"t2"}, DJANGO, DJANGO),
      MkPost("DRAFT", <<2024, 3, 1, 0>>, "hello", {"t1"}, DJANGO, DJANGO),
      MkPost("DRAFT", <<2024, 3, 1, 0>>, "world", {"t1"}, DJANGO, DJANGO),
      MkPost("PUBLISHED", <<2023, 3, 1, 0>>, "hello", {}, DJANGO, DJANGO)>>

InitDetail == InitWith(DetailChoices, DetailPosts)

NextDetail ==
    \/ Idle /\ \E y \in Years, m \in Months, d \in Days, s \in Slugs :
                    PostDetail(y, m, d, s)
    \/ Respond

SpecDetail == InitDetail /\ [][NextDetail]_vars

\* Stores whose posts all differ in slug, so that every post has a detail page.
SimilarChoices ==
    <<MkPost("PUBLISHED", <<2024, 4, 1, 0>>, "", {"t1", "t2"}, DJANGO, DJANGO),
      MkPost("PUBLISHED", <<2024, 3, 2, 0>>, "", {"t1", "t2"}, DJANGO, DJANGO),
      MkPost("PUBLISHED", <<2024, 3, 2, 0>>, "", {"t1"}, DJANGO, DJANGO),
      MkPost("DRAFT", <<2024, 3, 2, 0>>, "", {"t1", "t2"}, DJANGO, DJANGO),
      MkPost("PUBLISHED", <<2024, 3, 1, 0>>, "", {"t1", "t2"}, DJANGO, DJANGO),
      MkPost("PUBLISHED", <<2024, 3, 1, 0>>, "", {"t1"}, DJANGO, DJANGO),
      MkPost("PUBLISHED", <<2024, 3, 1, 0>>, "", {"t2"}, DJANGO, DJANGO),
      MkPost("PUBLISHED", <<2024, 3, 1, 0>>, "", {}, DJANGO, DJANGO)>>

SlugOfId(j) == <<"post", j>>

InitSimilar ==
    /\ posts \in {[j \in 1..Len(s) |-> [s[j] EXCEPT !.slug = SlugOfId(j)]] :
                    s \in Stores(SimilarChoices, SimilarPosts)}
    /\ tags = TagSlugs
    /\ comments = <<>>
    /\ outbox = <<>>
    /\ now = NOW
    /\ req = NoRequest
    /\ resp = NoResponse
    /\ procs = <<>>

NextSimilar ==
    \/ Idle /\ \E m \in Months, d \in Days, j \in 1..SimilarPosts :
                    PostDetail(2024, m, d, SlugOfId(j))
    \/ Respond

SpecSimilar == InitSimilar /\ [][NextSimilar]_vars

(***************************************************************************)
(* post_share                                                              *)
(***************************************************************************)
ValidEmails == {"bob@y.org", "cat@z.org"}

\* EmailField: the value is an e-mail address.
IsEmail(v) == v \in ValidEmails

\* EmailPostForm: the fields in error (name, email and to are required,
\* comments is optional).
EmailPostFormErrors(form) ==
    {f \in {"name"} : form.name = ""}
        \cup {f \in {"email"} : ~IsEmail(form.email)}
        \cup {f \in {"to"} : ~IsEmail(form.to)}

\* A faulty variant: the lookup leaves the status out.
PublishedById_AnyStatus(post_id) ==
    GetObjectOr404({p \in Range(posts) : p.id = post_id})

\* get_object_or_404(Post, id=post_id, status=Post.Status.PUBLISHED)
PublishedById(post_id) ==
    GetObjectOr404({p \in Range(posts) : p.id = post_id /\ p.status = "PUBLISHED"})

\* request.build_absolute_uri(post.get_absolute_url())
AbsoluteUrl(post) ==
    <<"http://testserver", "/blog/", post.publish[1], post.publish[2],
      post.publish[3], post.slug>>

\* The message post_share composes from the cleaned data: the values put
\* into the subject "<name> recommends you read <title>" and the text
\* "Read <title> at <url>\n\n<name>'s comments: <comments>".
ShareMessage(post, cd) ==
    [subject |-> [name |-> cd.name, recommends_you_read |-> post.title],
     message |-> [read |-> post.title, at |-> AbsoluteUrl(post),
                  name |-> cd.name, comments |-> cd.comments],
     from_email |-> FROM_EMAIL,
     recipient_list |-> <<cd.to>>]

\* The outcome of post_share after the post was found; send_mail either
\* hands the message over or raises.
ShareFound(post, method, form) ==
    IF method = "POST"
    THEN IF EmailPostFormErrors(form) = {}
         THEN \/ /\ Len(outbox) < MaxMail
                 /\ outbox' = Append(outbox, ShareMessage(post, form))
                 /\ resp' = [status |-> "ok", post |-> post.id, sent |-> TRUE,
                             errors |-> {}]
              \/ /\ outbox' = outbox
                 /\ resp' = [status |-> "SMTPException"]
         ELSE /\ outbox' = outbox
              /\ resp' = [status |-> "ok", post |-> post.id, sent |-> FALSE,
                          errors |-> EmailPostFormErrors(form)]
    ELSE /\ outbox' = outbox
         /\ resp' = [status |-> "ok", post |-> post.id, sent |-> FALSE,
                     errors |-> {}]

PostShare(method, post_id, form) ==
    LET found == PublishedById(post_id) IN
    /\ req' = [view |-> "post_share", method |-> method, post_id |-> post_id,
               form |-> form]
    /\ IF found.status # "ok"
       THEN resp' = found /\ outbox' = outbox
       ELSE ShareFound(found.post, method, form)
    /\ UNCHANGED <<posts, tags, comments, now, procs>>

Methods == {"GET", "POST"}

EmailPostForms ==
    [name : {"", "ann"}, email : {"nobody", "bob@y.org"},
     to : {"", "bob@y.org", "cat@z.org"}, comments : {"", "nice"}]

ShareChoices ==
    <<MkPost("PUBLISHED", <<2024, 4, 1, 0>>, "hello", {"t1"}, DJANGO, DJANGO),
      MkPost("PUBLISHED", <<2024, 3, 1, 0>>, "hello", {"t1"}, FLASK, DJANGO),
      MkPost("DRAFT", <<2024, 3, 1, 0>>, "world", {"t1"}, RUBY, DJANGO)>>

InitShare == InitWith(ShareChoices, SharePosts)

NextShare ==
    \/ Idle /\ \E m \in Methods, id \in 1..(SharePosts + 1), f \in EmailPostForms :
                    PostShare(m, id, f)
    \/ Respond

SpecShare == InitShare /\ [][NextShare]_vars

(***************************************************************************)
(* post_comment                                                            *)
(***************************************************************************)
\* CommentForm: the fields in error (name, email and body are required).
CommentFormErrors(form) ==
    {f \in {"name"} : form.name = ""}
        \cup {f \in {"email"} : ~IsEmail(form.email)}
        \cup {f \in {"body"} : form.body = ""}

\* form.save(commit=False); comment.post = post
NewComment(post, form) ==
    [post |-> post.id, name |-> form.name, email |-> form.email,
     body |-> form.body, active |-> TRUE]

\* A faulty variant: the save replaces the comments of the store by the new one.
CommentFound_Overwrite(post, form) ==
    IF CommentFormErrors(form) = {}
    THEN /\ Len(comments) < MaxComments
         /\ comments' = <<NewComment(post, form)>>
         /\ resp' = [status |-> "ok", post |-> post.id,
                     comment |-> <<NewComment(post, form)>>, errors |-> {}]
    ELSE /\ comments' = comments
         /\ resp' = [status |-> "ok", post |-> post.id, comment |-> <<>>,
                     errors |-> CommentFormErrors(form)]

\* The outcome of post_comment after the post was found.
CommentFound(post, form) ==
    IF CommentFormErrors(form) = {}
    THEN /\ Len(comments) < MaxComments
         /\ comments' = Append(comments, NewComment(post, form))
         /\ resp' = [status |-> "ok", post |-> post.id,
                     comment |-> <<NewComment(post, form)>>, errors |-> {}]
    ELSE /\ comments' = comments
         /\ resp' = [status |-> "ok", post |-> post.id, comment |-> <<>>,
                     errors |-> CommentFormErrors(form)]

\* @require_POST, then the view.  In a response, `comment` is <<c>> for the
\* comment c and <<>> for None.
PostComment(method, post_id, form) ==
    LET found == PublishedById(post_id) IN
    /\ req' = [view |-> "post_comment", method |-> method, post_id |-> post_id,
               form |-> form]
    /\ IF method # "POST"
       THEN resp' = [status |-> "MethodNotAllowed"] /\ comments' = comments
       ELSE IF found.status # "ok"
       THEN resp' = found /\ comments' = comments
       ELSE CommentFound(found.post, form)
    /\ UNCHANGED <<posts, tags, outbox, now, procs>>

CommentForms ==
    [name : {"", "ann"}, email : {"nobody", "bob@y.org"}, body : {"", "hi", "ho"}]

InitComment == InitWith(ShareChoices, CommentPosts)

NextComment ==
    \/ Idle /\ \E m \in Methods, id \in 1..(CommentPosts + 1), f \in CommentForms :
                    PostComment(m, id, f)
    \/ Respond

SpecComment == InitComment /\ [][NextComment]_vars

(***************************************************************************)
(* post_search                                                             *)
(***************************************************************************)
DJANGORM == <<"d", "j", "a", "n", "g", "o", "r", "m">>
DJANGOBLOG == <<"d", "j", "a", "n", "g", "o", "b", "l", "o", "g">>
D == <<"d">>

\* The trigrams of a word: the three-character windows of the word padded
\* with two blanks before it and one after it.
Trigrams(word) ==
    LET padded == <<" ", " ">> \o word \o <<" ">> IN
    IF word = <<>> THEN {}
    ELSE {SubSeq(padded, i, i + 2) : i \in 1..(Len(padded) - 2)}

\* TrigramSimilarity(field, query) as the fraction <<shared, all>>.
TrigramSimilarity(text, query) ==
    LET a == Trigrams(text)
        b == Trigrams(query)
    IN IF a \cup b = {} THEN <<0, 1>>
       ELSE <<Cardinality(a \cap b), Cardinality(a \cup b)>>

\* Fractions <<numerator, denominator>>, denominators positive.
FracAdd(x, y) == <<x[1] * y[2] + y[1] * x[2], x[2] * y[2]>>

FracGeq(x, y) == x[1] * y[2] >= y[1] * x[2]

\* A faulty variant: the title similarity counts twice.
QuerySimilarity_TitleTwice(p, query) ==
    FracAdd(TrigramSimilarity(p.title, query),
            FracAdd(TrigramSimilarity(p.title, query), TrigramSimilarity(p.body, query)))

\* The annotation similarity of a post.
QuerySimilarity(p, query) ==
    FracAdd(TrigramSimilarity(p.title, query), TrigramSimilarity(p.body, query))

\* A faulty variant: the filter is similarity__gt.
SearchMatches_Strict(query) ==
    {p \in Range(Published) :
        ~FracGeq(<<MIN_SIMILARITY_NUM, MIN_SIMILARITY_DEN>>, QuerySimilarity(p, query))}

\* .filter(similarity__gte=0.1)
SearchMatches(query) ==
    {p \in Range(Published) :
        FracGeq(QuerySimilarity(p, query), <<MIN_SIMILARITY_NUM, MIN_SIMILARITY_DEN>>)}

RECURSIVE SearchOrderings(_, _)
\* order_by('-similarity'): posts of equal similarity come in any order.
SearchOrderings(S, query) ==
    IF S = {} THEN {<<>>}
    ELSE UNION {{<<p>> \o r : r \in SearchOrderings(S \ {p}, query)} :
                    p \in {x \in S : \A y \in S :
                            FracGeq(QuerySimilarity(x, query), QuerySimilarity(y, query))}}

\* SearchForm: the query is required and at most MAX_QUERY_LENGTH long.
SearchFormValid(text) == Len(text) >= 1 /\ Len(text) <= MAX_QUERY_LENGTH

Annotated(r, query) ==
    [i \in 1..Len(r) |-> [id |-> r[i].id, similarity |-> QuerySimilarity(r[i], query)]]

\* In a response, `query` is <<q>> for the query q and <<>> for None.
PostSearch(q) ==
    /\ req' = [view |-> "post_search", query |-> q]
    /\ IF q.present /\ SearchFormValid(q.text)
       THEN \E r \in SearchOrderings(SearchMatches(q.text), q.text) :
                resp' = [status |-> "ok", query |-> <<q.text>>,
                         results |-> Annotated(r, q.text)]
       ELSE resp' = [status |-> "ok", query |-> <<>>, results |-> <<>>]
    /\ UNCHANGED <<posts, tags, comments, outbox, now, procs>>

Queries ==
    {[present |-> FALSE, text |-> <<>>]}
        \cup {[present |-> TRUE, text |-> t] :
                t \in {<<>>, D, DJANO, DJANGO, FLASK, DJANGOBLOG}}

SearchChoices ==
    <<MkPost("PUBLISHED", <<2024, 4, 1, 0>>, "hello", {}, DJANGO, DJANGO),
      MkPost("PUBLISHED", <<2024, 3, 2, 0>>, "hello", {}, DJANGO, DJANGO),
      MkPost("PUBLISHED", <<2024, 3, 2, 0>>, "hello", {}, DJANGO, RUBY),
      MkPost("PUBLISHED", <<2024, 3, 2, 0>>, "hello", {}, DJANGORM, RUBY),
      MkPost("PUBLISHED", <<2024, 3, 1, 0>>, "hello", {}, DJANGOBLOG, RUBY),
      MkPost("PUBLISHED", <<2024, 3, 1, 0>>, "hello", {}, DJANGOBLOG, DJANGOBLOG),
      MkPost("PUBLISHED", <<2024, 3, 1, 0>>, "hello", {}, FLASK, RUBY),
      MkPost("DRAFT", <<2024, 3, 1, 0>>, "hello", {}, DJANGO, DJANGO)>>

InitSearch == InitWith(SearchChoices, SearchPosts)

NextSearch ==
    \/ Idle /\ \E q \in Queries : PostSearch(q)
    \/ Respond

SpecSearch == InitSearch /\ [][NextSearch]_vars

(***************************************************************************)
(* The five handlers together, requests in any order.                      *)
(***************************************************************************)
AllChoices ==
    <<MkPost("PUBLISHED", <<2024, 4, 1, 0>>, "hello", {"t1"}, DJANGO, DJANGO),
      MkPost("PUBLISHED", <<2024, 3, 1, 0>>, "hello", {"t1"}, DJANGO, RUBY),
      MkPost("DRAFT", <<2024, 3, 1, 0>>, "hello", {"t1"}, DJANGO, DJANGO)>>

AllEmailPostForms ==
    {[name |-> "ann", email |-> "bob@y.org", to |-> "cat@z.org", comments |-> "nice"],
     [name |-> "ann", email |-> "bob@y.org", to |-> "", comments |-> ""]}

AllCommentForms ==
    {[name |-> "ann", email |-> "bob@y.org", body |-> "hi"],
     [name |-> "", email |-> "bob@y.org", body |-> "hi"]}

Init == InitWith(AllChoices, AllPosts)

Next ==
    \/ Idle /\ \E t \in TagInputs, pg \in Pages : PostList(t, pg)
    \/ Idle /\ \E m \in Months, d \in Days, s \in Slugs : PostDetail(2024, m, d, s)
    \/ Idle /\ \E m \in Methods, id \in 1..(AllPosts + 1), f \in AllEmailPostForms :
                    PostShare(m, id, f)
    \/ Idle /\ \E m \in Methods, id \in 1..(AllPosts + 1), f \in AllCommentForms :
                    PostComment(m, id, f)
    \/ Idle /\ \E q \in Queries : PostSearch(q)
    \/ Respond

Spec == Init /\ [][Next]_vars

(***************************************************************************)
(* post_comment step by step, beside other requests and the site's         *)
(* administration: the lookup of the post and the insert of the comment    *)
(* are two operations on the store.                                        *)
(***************************************************************************)
SetProc(i, p) == [procs EXCEPT ![i] = p]

\* A POST to post_comment arrives.
CommentArrives(post_id, form) ==
    /\ Len(procs) < MaxProcs
    /\ procs' = Append(procs, [pc |-> "lookup", post_id |-> post_id, form |-> form,
                               post |-> <<>>, status |-> None])
    /\ UNCHANGED <<posts, tags, comments, outbox, now, req, resp>>

\* post = get_object_or_404(...); form = CommentForm(data=request.POST);
\* form.is_valid()
CommentLookup(i) ==
    LET pr == procs[i]
        found == PublishedById(pr.post_id)
    IN /\ pr.pc = "lookup"
       /\ procs' = SetProc(i,
            IF found.status # "ok"
            THEN [pr EXCEPT !.pc = "done", !.status = found.status]
            ELSE IF CommentFormErrors(pr.form) # {}
            THEN [pr EXCEPT !.pc = "done", !.status = "ok", !.post = <<found.post>>]
            ELSE [pr EXCEPT !.pc = "save", !.post = <<found.post>>])
       /\ UNCHANGED <<posts, tags, comments, outbox, now, req, resp>>

\* comment.save(): the insert of a row that refers to the post's id; the
\* store rejects a row that refers to no post.
CommentSave(i) ==
    LET pr == procs[i] IN
    /\ pr.pc = "save"
    /\ IF \E p \in Range(posts) : p.id = pr.post_id
       THEN /\ comments' = Append(comments, NewComment(pr.post[1], pr.form))
            /\ procs' = SetProc(i, [pr EXCEPT !.pc = "done", !.status = "created"])
       ELSE /\ comments' = comments
            /\ procs' = SetProc(i, [pr EXCEPT !.pc = "done", !.status = "IntegrityError"])
    /\ UNCHANGED <<posts, tags, outbox, now, req, resp>>

\* The administration takes a post back to draft.
Unpublish(id) ==
    /\ \E j \in 1..Len(posts) : posts[j].id = id /\ posts[j].status = "PUBLISHED"
    /\ posts' = [j \in 1..Len(posts) |->
                    IF posts[j].id = id THEN [posts[j] EXCEPT !.status = "DRAFT"]
                    ELSE posts[j]]
    /\ UNCHANGED <<tags, comments, outbox, now, req, resp, procs>>

\* The administration deletes a post, and with it the post's comments.
RemovePost(id) ==
    /\ \E j \in 1..Len(posts) : posts[j].id = id
    /\ posts' = LET Keep(p) == p.id # id IN SelectSeq(posts, Keep)
    /\ comments' = LET Keep(c) == c.post # id IN SelectSeq(comments, Keep)
    /\ UNCHANGED <<tags, outbox, now, req, resp, procs>>

InitConc == InitWith(AllChoices, ConcPosts)

NextConc ==
    \/ \E id \in 1..ConcPosts, f \in AllCommentForms : CommentArrives(id, f)
    \/ \E i \in 1..Len(procs) : CommentLookup(i)
    \/ \E i \in 1..Len(procs) : CommentSave(i)
    \/ \E id \in 1..ConcPosts : Unpublish(id)
    \/ \E id \in 1..ConcPosts : RemovePost(id)

SpecConc == InitConc /\ [][NextConc]_vars

(***************************************************************************)
(* Properties of post_list.                                                *)
(***************************************************************************)
\* What a page text denotes: <<n>> for the integer n, <<>> for no integer.
C3_Denotes(text) ==
    CASE text = <<"-", "1">> -> <<0 - 1>>
      [] text = <<"0">> -> <<0>>
      [] text = <<"1">> -> <<1>>
      [] text = <<"2">> -> <<2>>
      [] text = <<"3">> -> <<3>>
      [] text = <<"4">> -> <<4>>
      [] text = <<"1", "2">> -> <<12>>
      [] text = <<"+", "2">> -> <<2>>
      [] OTHER -> <<>>

\* The ids of the published posts in repository order, of the tag if one is given.
C3_Listed(tag_slug) ==
    LET Test(p) == IsPublished(p) /\ (tag_slug = "" \/ tag_slug \in p.tags)
    IN Ids(SelectSeq(posts, Test))

\* The number of pages of n posts: the least k >= 1 with 3 * k >= n.
C3_TotalPages(n) == CHOOSE k \in 1..(n + 1) : 3 * k >= n /\ (k = 1 \/ 3 * (k - 1) < n)

\* The k-th block of 3 of a list.
C3_Block(list, k) ==
    LET size == IF Len(list) - 3 * (k - 1) >= 3 THEN 3
                ELSE IF Len(list) - 3 * (k - 1) <= 0 THEN 0
                ELSE Len(list) - 3 * (k - 1)
    IN [i \in 1..size |-> list[3 * (k - 1) + i]]

\* The page the claim expects.
C3_Expected(list, page) ==
    LET total == C3_TotalPages(Len(list))
        n == C3_Denotes(page.text)
    IN IF ~page.present THEN 1
       ELSE IF n = <<>> THEN 1
       ELSE IF n[1] >= 1 /\ n[1] <= total THEN n[1]
       ELSE total

\* C3: post_list never fails because of the page parameter; it returns at most
\* 3 posts; an in-range page number n returns the n-th block of 3 in repository
\* order, a number outside 1..total pages returns the last page, a value that is
\* no integer returns page 1, and an absent value returns page 1.
C3_PageNormalised ==
    req.view = "post_list" =>
        /\ resp.status \in {"ok", "Http404"}
        /\ resp.status = "Http404" <=> (req.tag_slug # "" /\ req.tag_slug \notin tags)
        /\ resp.status = "ok" =>
            LET list == C3_Listed(req.tag_slug) IN
            /\ Len(resp.posts) <= 3
            /\ resp.number = C3_Expected(list, req.page)
            /\ resp.posts = C3_Block(list, C3_Expected(list, req.page))

\* A page number past the last page returned the third, partly filled page.
C3_Witness ==
    /\ req.view = "post_list"
    /\ req.page.present /\ req.page.text = <<"4">>
    /\ resp.status = "ok"
    /\ resp.number = 3
    /\ Len(resp.posts) = 1

(***************************************************************************)
(* Properties of the similar posts of post_detail.                         *)
(***************************************************************************)
C6_Shared(p, cur) == Cardinality({t \in TagSlugs : t \in p.tags /\ t \in cur.tags})

C6_Eligible(cur) ==
    {p \in Range(posts) : IsPublished(p) /\ p.id # cur.id /\ C6_Shared(p, cur) >= 1}

\* p ranks strictly before q.
C6_Before(p, q, cur) ==
    \/ C6_Shared(p, cur) > C6_Shared(q, cur)
    \/ C6_Shared(p, cur) = C6_Shared(q, cur) /\ TsKey(p.publish) > TsKey(q.publish)

\* C6: the similar posts never contain the current post, are at most 4, are
\* published posts sharing a tag with the current post, each once, sorted by
\* shared tags descending then publish descending, and are the first 4 of
\* the full ranking.
C6_SimilarRanked ==
    (req.view = "post_detail" /\ resp.status = "ok") =>
        LET cur == PostById(resp.post)
            sim == resp.similar_posts
        IN /\ resp.post \notin Range(sim)
           /\ Len(sim) <= 4
           /\ \A i, j \in 1..Len(sim) : i # j => sim[i] # sim[j]
           /\ \A i \in 1..Len(sim) : PostById(sim[i]) \in C6_Eligible(cur)
           /\ \A i, j \in 1..Len(sim) :
                i < j => ~C6_Before(PostById(sim[j]), PostById(sim[i]), cur)
           /\ Len(sim) = Min(4, Cardinality(C6_Eligible(cur)))
           /\ \A q \in C6_Eligible(cur) : q.id \notin Range(sim) =>
                \A i \in 1..Len(sim) : ~C6_Before(q, PostById(sim[i]), cur)

\* Four similar posts out of more, ranked by shared tags and, among equals,
\* by publish time.
C6_Witness ==
    /\ req.view = "post_detail" /\ resp.status = "ok"
    /\ Len(resp.similar_posts) = 4
    /\ Cardinality(C6_Eligible(PostById(resp.post))) > 4
    /\ LET cur == PostById(resp.post)
           a == PostById(resp.similar_posts[1])
           b == PostById(resp.similar_posts[2])
           c == PostById(resp.similar_posts[4])
       IN /\ C6_Shared(a, cur) = C6_Shared(b, cur)
          /\ TsKey(a.publish) > TsKey(b.publish)
          /\ C6_Shared(a, cur) > C6_Shared(c, cur)

(***************************************************************************)
(* Properties of post_search.                                              *)
(***************************************************************************)
C7_Invalid(q) == ~q.present \/ q.text = <<>> \/ Len(q.text) > MAX_QUERY_LENGTH

\* Ten times the similarity is at least one.
C7_Kept(p, text) ==
    LET sim == QuerySimilarity(p, text) IN 10 * sim[1] >= sim[2]

\* C7: post_search never fails on its query; an absent or invalid query gives
\* no results and no query; a valid query gives exactly the published posts of
\* combined similarity at least 0.1, by similarity descending.
C7_SearchResults ==
    req.view = "post_search" =>
        /\ resp.status = "ok"
        /\ C7_Invalid(req.query) => resp.results = <<>> /\ resp.query = <<>>
        /\ ~C7_Invalid(req.query) =>
            LET res == resp.results IN
            /\ resp.query = <<req.query.text>>
            /\ {res[i].id : i \in 1..Len(res)}
                 = {p.id : p \in {x \in Range(posts) :
                                    IsPublished(x) /\ C7_Kept(x, req.query.text)}}
            /\ \A i, j \in 1..Len(res) : i # j => res[i].id # res[j].id
            /\ \A i, j \in 1..Len(res) :
                i < j => res[i].similarity[1] * res[j].similarity[2]
                            >= res[j].similarity[1] * res[i].similarity[2]

\* A valid query that keeps a post of similarity exactly 0.1, leaves out a
\* published post below it, and returns two posts of different similarity.
C7_Witness ==
    /\ req.view = "post_search" /\ ~C7_Invalid(req.query)
    /\ Len(resp.results) >= 2
    /\ \E i \in 1..Len(resp.results) :
            10 * resp.results[i].similarity[1] = resp.results[i].similarity[2]
    /\ \E i \in 1..Len(resp.results) :
            10 * resp.results[i].similarity[1] > resp.results[i].similarity[2]
    /\ \E p \in Range(posts) : IsPublished(p) /\ ~C7_Kept(p, req.query.text)
                                /\ QuerySimilarity(p, req.query.text)[1] > 0

\* C9 as claimed: every search result carries a similarity in [0, 1].
C9_SimilarityAtMostOne ==
    req.view = "post_search" =>
        \A i \in 1..Len(resp.results) :
            /\ resp.results[i].similarity[1] >= 0
            /\ resp.results[i].similarity[1] <= resp.results[i].similarity[2]

\* C9 as amended: every search result carries a similarity in [0.1, 2], the
\* sum of a title similarity and a body similarity that are each in [0, 1].
C9_SimilarityAtMostTwo ==
    req.view = "post_search" =>
        \A i \in 1..Len(resp.results) :
            /\ resp.results[i].similarity[2] > 0
            /\ 10 * resp.results[i].similarity[1] >= resp.results[i].similarity[2]
            /\ resp.results[i].similarity[1] <= 2 * resp.results[i].similarity[2]

\* A search result whose similarity is above 1.
C9_Witness ==
    /\ req.view = "post_search"
    /\ \E i \in 1..Len(resp.results) :
            resp.results[i].similarity[1] > resp.results[i].similarity[2]

(***************************************************************************)
(* Properties of post_share and post_comment.                              *)
(***************************************************************************)
\* The post of the id is a published post: status PUBLISHED, publish time not
\* in the future.
C4_IsPublishedId(post_id) == \E p \in Range(posts) : p.id = post_id /\ IsPublished(p)

\* The post of the id has status PUBLISHED.
C4_HasStatusPublishedId(post_id) ==
    \E p \in Range(posts) : p.id = post_id /\ p.status = "PUBLISHED"

\* What a share request does when it is to send iff `sends` holds.
C1_ShareEffect(sends) ==
    IF sends
    THEN \/ /\ resp'.status = "ok" /\ resp'.sent
            /\ Len(outbox') = Len(outbox) + 1
            /\ SubSeq(outbox', 1, Len(outbox)) = outbox
            /\ outbox'[Len(outbox')].recipient_list = <<req'.form.to>>
            /\ outbox'[Len(outbox')].message.at = AbsoluteUrl(PostById(req'.post_id))
         \/ /\ resp'.status \notin {"ok", "Http404"}
            /\ outbox' = outbox
    ELSE /\ outbox' = outbox
         /\ resp'.status = "ok" => ~resp'.sent

C1_ValidForm(form) ==
    form.name # "" /\ form.email \in ValidEmails /\ form.to \in ValidEmails

\* C1: a post_share request hands exactly one message to the mail gateway, to
\* the submitted 'to' address and containing the post's absolute URL, when it
\* is a POST with valid data for an existing published post, and none in every
\* other case; sent = true only if the send returned, and a gateway error
\* propagates with no 'sent' response.
C1_ShareSendsOneMessage ==
    [][req'.view = "post_share" =>
        C1_ShareEffect(/\ req'.method = "POST"
                    /\ C1_ValidForm(req'.form)
                    /\ C4_IsPublishedId(req'.post_id))]_vars

\* The same with "published" read as the status alone, as the lookup does.
C1_ShareSendsOneMessageByStatus ==
    [][req'.view = "post_share" =>
        C1_ShareEffect(/\ req'.method = "POST"
                    /\ C1_ValidForm(req'.form)
                    /\ C4_HasStatusPublishedId(req'.post_id))]_vars

C2_ValidForm(form) ==
    form.name # "" /\ form.email \in ValidEmails /\ form.body # ""

\* What a comment request does when it is to create iff `creates` holds.
C2_CommentEffect(creates) ==
    IF creates
    THEN /\ resp'.status = "ok"
         /\ Len(comments') = Len(comments) + 1
         /\ SubSeq(comments', 1, Len(comments)) = comments
         /\ comments'[Len(comments')].post = req'.post_id
         /\ comments'[Len(comments')].active
         /\ comments'[Len(comments')].name = req'.form.name
         /\ comments'[Len(comments')].body = req'.form.body
         /\ resp'.comment = <<comments'[Len(comments')]>>
    ELSE /\ comments' = comments
         /\ req'.method # "POST" => resp'.status = "MethodNotAllowed"
         /\ resp'.status = "ok" => resp'.comment = <<>> /\ resp'.errors # {}

\* C2: post_comment creates a Comment iff the method is POST, the post id
\* resolves to an existing published post and the fields are valid: then
\* exactly one, bound to the post, active, and returned; invalid fields create
\* none and give no comment and errors; a GET creates none and is
\* MethodNotAllowed.
C2_CommentCreatedIff ==
    [][req'.view = "post_comment" =>
        C2_CommentEffect(/\ req'.method = "POST"
                      /\ C2_ValidForm(req'.form)
                      /\ C4_IsPublishedId(req'.post_id))]_vars

\* The same with "published" read as the status alone, as the lookup does.
C2_CommentCreatedIffByStatus ==
    [][req'.view = "post_comment" =>
        C2_CommentEffect(/\ req'.method = "POST"
                      /\ C2_ValidForm(req'.form)
                      /\ C4_HasStatusPublishedId(req'.post_id))]_vars

(***************************************************************************)
(* Visibility of posts.                                                    *)
(***************************************************************************)
\* C4: only a post with status PUBLISHED and a publish time not in the future
\* is visible: post_detail, post_share and post_comment are NotFound for any
\* other post, and post_list and post_search never return one.
C4_OnlyPublishedVisible ==
    /\ (req.view = "post_detail" /\ resp.status = "ok") =>
            IsPublished(PostById(resp.post))
    /\ (req.view = "post_share" /\ ~C4_IsPublishedId(req.post_id)) =>
            resp.status = "Http404"
    /\ (req.view = "post_comment" /\ req.method = "POST"
            /\ ~C4_IsPublishedId(req.post_id)) => resp.status = "Http404"
    /\ (req.view = "post_list" /\ resp.status = "ok") =>
            \A i \in 1..Len(resp.posts) : C4_IsPublishedId(resp.posts[i])
    /\ (req.view = "post_search") =>
            \A i \in 1..Len(resp.results) : C4_IsPublishedId(resp.results[i].id)

\* The same of the status alone.
C4_OnlyStatusPublishedVisible ==
    /\ (req.view = "post_detail" /\ resp.status = "ok") =>
            PostById(resp.post).status = "PUBLISHED"
    /\ (req.view = "post_share" /\ ~C4_HasStatusPublishedId(req.post_id)) =>
            resp.status = "Http404"
    /\ (req.view = "post_comment" /\ req.method = "POST"
            /\ ~C4_HasStatusPublishedId(req.post_id)) => resp.status = "Http404"
    /\ (req.view = "post_list" /\ resp.status = "ok") =>
            \A i \in 1..Len(resp.posts) : C4_IsPublishedId(resp.posts[i])
    /\ (req.view = "post_search") =>
            \A i \in 1..Len(resp.results) : C4_IsPublishedId(resp.results[i].id)

(***************************************************************************)
(* The lookup of post_detail.                                              *)
(***************************************************************************)
C5_Key(p) == <<p.publish[1], p.publish[2], p.publish[3], p.slug>>

C5_Matching ==
    {p \in Range(posts) :
        /\ p.status = "PUBLISHED"
        /\ C5_Key(p) = <<req.year, req.month, req.day, req.slug>>}

\* C5: post_detail returns a post only when exactly one published post matches
\* year, month, day and slug, and is NotFound both when none matches and when
\* more than one does.
C5_DetailUniqueOrNotFound ==
    req.view = "post_detail" =>
        IF Cardinality(C5_Matching) = 1
        THEN resp.status = "ok" /\ PostById(resp.post) \in C5_Matching
        ELSE resp.status = "Http404"

\* The same, but for the ambiguous match, which raises MultipleObjectsReturned.
C5_DetailUniqueOrError ==
    req.view = "post_detail" =>
        IF Cardinality(C5_Matching) = 1
        THEN resp.status = "ok" /\ PostById(resp.post) \in C5_Matching
        ELSE IF C5_Matching = {} THEN resp.status = "Http404"
        ELSE resp.status = "MultipleObjectsReturned"

(***************************************************************************)
(* The store under the handlers.                                           *)
(***************************************************************************)
\* C8: no handler changes or deletes a post, a tag or an existing comment; the
\* only change to the store is the one comment a valid post_comment POST
\* inserts; post_list, post_detail, post_share and post_search change nothing.
C8_StoreFrame ==
    [][/\ posts' = posts
       /\ tags' = tags
       /\ \/ comments' = comments
          \/ /\ req'.view = "post_comment"
             /\ req'.method = "POST"
             /\ C2_ValidForm(req'.form)
             /\ Len(comments') = Len(comments) + 1
             /\ SubSeq(comments', 1, Len(comments)) = comments]_vars

\* A request served after a comment was added to an earlier one and a message
\* was sent.
C8_Witness ==
    /\ Len(comments) = 2
    /\ Len(outbox) >= 1
    /\ req.view = "post_detail" /\ resp.status = "ok"
    /\ Len(resp.comments) >= 1

(***************************************************************************)
(* post_comment beside changes of the store.                               *)
(***************************************************************************)
\* C10 as claimed: a comment is inserted only for a post that is published
\* (here: has status PUBLISHED) at the moment of the insert, and each valid
\* submission for a post that was found inserts exactly one comment.
C10_InsertOnlyForPublished ==
    [][/\ Len(comments') > Len(comments) =>
            \E p \in Range(posts) :
                p.id = comments'[Len(comments')].post /\ p.status = "PUBLISHED"
       /\ \A i \in 1..Len(procs) :
            (procs[i].pc = "save" /\ procs'[i].pc = "done") =>
                Len(comments') = Len(comments) + 1]_vars

\* C10 as amended: the lookup and the insert are two operations; a comment is
\* inserted only by the save of a request whose lookup found the post with
\* status PUBLISHED and only while the post still exists; a request saves at
\* most once, and its save inserts exactly one comment if the post exists
\* and none otherwise.
C10_InsertAfterLookup ==
    [][/\ \A i \in 1..Len(procs) :
            (procs[i].pc = "save" /\ procs'[i].pc = "done") =>
                /\ procs[i].post # <<>>
                /\ procs[i].post[1].status = "PUBLISHED"
                /\ procs[i].post[1].id = procs[i].post_id
                /\ C2_ValidForm(procs[i].form)
                /\ IF \E p \in Range(posts) : p.id = procs[i].post_id
                   THEN /\ Len(comments') = Len(comments) + 1
                        /\ SubSeq(comments', 1, Len(comments)) = comments
                        /\ comments'[Len(comments')].post = procs[i].post_id
                   ELSE comments' = comments
       /\ Len(comments') > Len(comments) =>
            \E i \in 1..Len(procs) : procs[i].pc = "save" /\ procs'[i].pc = "done"
       /\ \A i \in 1..Len(procs) : procs[i].pc = "done" => procs'[i] = procs[i]]_vars

\* A comment of a post that is a draft by now, and a save the store rejected.
C10_Witness ==
    /\ \E i \in 1..Len(comments) : \E p \in Range(posts) :
            p.id = comments[i].post /\ p.status = "DRAFT"
    /\ \E i \in 1..Len(procs) : procs[i].status = "IntegrityError"

====
